---------------------------- MODULE Spec2Model ----------------------------
(***************************************************************************)
(* The GoGet rate-callback handler: one invocation of `handler` from the   *)
(* incoming request to the response, in the three iterations kept in the   *)
(* repository:                                                             *)
(*   "goget"   src/api/rates/goget.js   (header/body token, body overrides)*)
(*   "part000" src/unnamed/part_000     (query token, one geocoder attempt)*)
(*   "part001" src/unnamed/part_001     (query token, env pickup, debug)   *)
(* Every `await` of the code is a position of pc; the network is the       *)
(* environment: it answers a pending call, or it does not, and the abort   *)
(* timer of the call (while armed) may fire instead.                       *)
(*                                                                         *)
(* Units: a coordinate is an integer number of hundredths of a degree, a   *)
(* fee an integer number of thousandths of the currency unit.              *)
(***************************************************************************)
EXTENDS Integers, Sequences, FiniteSets, TLC

VARIABLES
    variant,    \* which iteration of the handler runs
    env,        \* process.env, as far as the handler reads it
    req,        \* the incoming request
    pc,         \* position of the handler
    loc,        \* the handler's locals, set by the synchronous prologue
    pickupGeo,  \* resolved pickup point
    dropoffGeo, \* resolved dropoff point
    geo,        \* geocodeAddress in progress: side, attempt index
    timer,      \* duration of the armed abort timer, 0 when none is armed
    geoLog,     \* geocoder requests issued, in order
    quoteLog,   \* delivery-quote requests issued, in order
    pauseLog,   \* pauses taken: side, index of the attempt before it, length
    quote,      \* what the quote call returned: status and parsed body
    failed,     \* the steps that failed or threw in this invocation
    resp,       \* the response sent, if any
    thrown,     \* an exception left handler
    lastTry     \* the last geocoder attempt that ended: the answer, the result

vars == <<variant, env, req, pc, loc, pickupGeo, dropoffGeo, geo, timer,
          geoLog, quoteLog, pauseLog, quote, failed, resp, thrown, lastTry>>

-----------------------------------------------------------------------------
(* JavaScript values, as far as the handler distinguishes them.             *)

\* Number of distinct places the geocoder may answer with.
NumPlaces == 2

Absent == "<undefined>"
NullTok == "<null>"

Truthy(s) == s # Absent /\ s # NullTok /\ s # ""

\* a || b for strings
OrElse(a, b) == IF Truthy(a) THEN a ELSE b

Undef == [t |-> "undefined", n |-> 0]
JNull == [t |-> "null", n |-> 0]
JText == [t |-> "string", n |-> 0]
Num(k) == [t |-> "number", n |-> k]
NumStr(k) == [t |-> "numstr", n |-> k]

\* Number(v): a finite number or NaN
JNaN == [t |-> "NaN", n |-> 0]

ToNumber(v) ==
    CASE v.t = "number" -> Num(v.n)
      [] v.t = "numstr" -> Num(v.n)
      [] v.t = "null" -> Num(0)
      [] OTHER -> JNaN

IsFinite(v) == v.t = "number"

numberOrNull(v) ==
    LET n == ToNumber(v) IN IF IsFinite(n) THEN n ELSE JNull

toNum(v) ==
    LET n == ToNumber(v) IN IF IsFinite(n) THEN n ELSE JNull

envNumber(v) ==
    LET n == ToNumber(v) IN IF IsFinite(n) THEN n ELSE Undef

\* a ?? b
Coalesce(a, b) == IF a.t = "null" \/ a.t = "undefined" THEN b ELSE a

-----------------------------------------------------------------------------
(* Addresses.  A text is the sequence of its comma-separated parts; the     *)
(* empty string is the empty sequence.                                      *)

NumCountry == "#5"

PartText(p) == IF p = NumCountry THEN "5" ELSE p

FieldTruthy(p) == p # "" /\ p # Absent

RECURSIVE FilterJoin(_)
FilterJoin(parts) ==
    IF parts = <<>> THEN <<>>
    ELSE IF FieldTruthy(Head(parts))
         THEN <<PartText(Head(parts))>> \o FilterJoin(Tail(parts))
         ELSE FilterJoin(Tail(parts))

\* [a.address1, ..., a.zip, a.country].filter(Boolean).join(", ")
InlineJoin(a) ==
    FilterJoin(<<a.address1, a.address2, a.city, a.province, a.zip, a.country>>)

joinAddress(a) ==
    FilterJoin(<<a.address1, a.address2, a.city, a.province,
                 IF FieldTruthy(a.postal_code) THEN a.postal_code ELSE a.zip,
                 a.country>>)

\* s.toLowerCase() on the country codes of the model
ToLower(s) == CASE s = "MY" -> "my" [] s = "SG" -> "sg" [] OTHER -> s

IsString(p) == p # NumCountry

\* rate.destination?.country || rate.origin?.country || ""
CountryOf(r) ==
    IF FieldTruthy(r.dest.country) THEN r.dest.country
    ELSE IF FieldTruthy(r.origin.country) THEN r.origin.country ELSE ""

-----------------------------------------------------------------------------
(* Points, the geocoder's query and its answers.                            *)

NoGeo == [st |-> "pending", lat |-> 0, lng |-> 0]
NullGeo == [st |-> "null", lat |-> 0, lng |-> 0]
PointSwapped(lat, lng) == [st |-> "point", lat |-> lng, lng |-> lat]

\* { lat: ..., lng: ... }
Point(lat, lng) == [st |-> "point", lat |-> lat, lng |-> lng]

\* buildViewbox(lat, lng, delta = 0.27): "left,top,right,bottom"
ViewboxDelta == 27

buildViewboxSwapped(lat, lng) ==
    <<lat - ViewboxDelta, lng + ViewboxDelta, lat + ViewboxDelta, lng - ViewboxDelta>>

buildViewbox(lat, lng) ==
    <<lng - ViewboxDelta, lat + ViewboxDelta, lng + ViewboxDelta, lat - ViewboxDelta>>

\* the deadlines of the attempts of one geocodeAddress call
Timeouts(v) == IF v = "part000" THEN <<3000>> ELSE <<2500, 3500, 4500>>

PauseMs == 200
QuoteTimeoutMs == 4000

\* the search parameters geocodeAddress builds
GeoParams(side, address, country, bias, ms) ==
    [side |-> side, q |-> address, limit |-> 1, countrycodes |-> country,
     viewbox |-> IF bias.st = "point" THEN buildViewbox(bias.lat, bias.lng) ELSE <<>>,
     bounded |-> bias.st = "point", timeoutMs |-> ms]

Places == 1 .. NumPlaces
PlaceCandidate(i) == [lat |-> NumStr(300 + 10 * i), lon |-> NumStr(10100 + 7 * i)]
BadCandidate == [lat |-> JText, lon |-> NumStr(10100)]
NullCandidate == [lat |-> JNull, lon |-> NumStr(10100)]

\* what the body of a geocoder answer may be
GeoBodies ==
    {[kind |-> "badjson", items |-> <<>>], [kind |-> "object", items |-> <<>>],
     [kind |-> "array", items |-> <<>>],
     [kind |-> "array", items |-> <<BadCandidate, PlaceCandidate(1)>>],
     [kind |-> "array", items |-> <<NullCandidate>>]}
    \cup {[kind |-> "array", items |-> <<PlaceCandidate(i)>>] : i \in Places}
    \cup {[kind |-> "array", items |-> <<PlaceCandidate(i), PlaceCandidate(1)>>] :
            i \in Places \ {1}}

\* tryOnce, from the parsed body on: the point, or null
ParseGeoBody(b) ==
    IF b.kind # "array" \/ Len(b.items) = 0 THEN NullGeo
    ELSE LET latNum == ToNumber(b.items[1].lat)
             lngNum == ToNumber(b.items[1].lon)
         IN IF ~IsFinite(latNum) \/ ~IsFinite(lngNum) THEN NullGeo
            ELSE Point(latNum.n, lngNum.n)

-----------------------------------------------------------------------------
(* The delivery quote: fee extraction and the rate.                         *)

QuoteBody(d, t, f) == [kind |-> "json", dataFee |-> d, totalFee |-> t, fee |-> f]
BadJson == [kind |-> "badjson", dataFee |-> Undef, totalFee |-> Undef, fee |-> Undef]
NoQuote == [kind |-> "none", dataFee |-> Undef, totalFee |-> Undef, fee |-> Undef]

QuoteBodies ==
    { QuoteBody(Num(8500), Undef, Undef), QuoteBody(Undef, Num(13000), Undef),
      QuoteBody(Undef, Undef, Num(8500)), QuoteBody(NumStr(8500), Undef, Undef),
      QuoteBody(JText, Num(13000), Undef), QuoteBody(JNull, Num(13000), Undef),
      QuoteBody(Num(-8500), Undef, Undef), QuoteBody(Num(13000), Num(8500), Num(20)),
      QuoteBody(Num(13005), Undef, Undef), QuoteBody(Num(1005), Undef, Undef),
      QuoteBody(Undef, Undef, Undef), BadJson }

\* numberOrNull(quote?.data?.fee) ?? numberOrNull(quote?.total_fee) ?? numberOrNull(quote?.fee)
ExtractFeeByShape(b) ==
    Coalesce(Coalesce(numberOrNull(b.dataFee), numberOrNull(b.totalFee)),
             numberOrNull(b.fee))

\* Number(quote?.data?.fee ?? quote?.total_fee ?? quote?.fee)
ExtractFeeFirstPresent(b) ==
    ToNumber(Coalesce(Coalesce(b.dataFee, b.totalFee), b.fee))

ExtractFee(v, b) ==
    IF v = "part000" THEN ExtractFeeFirstPresent(b) ELSE ExtractFeeByShape(b)

\* IEEE 754 binary64, as far as fee * 100 needs it.  A non-negative real is
\* its integer part, five 16-bit limbs of its fraction (most significant
\* first), and a flag `rest` that tells whether anything is left below them.
LimbBase == 2 ^ 16

BitLen(n) == CHOOSE k \in 0 .. 30 : n < 2 ^ k /\ (k = 0 \/ n >= 2 ^ (k - 1))

\* k times the limbs plus c units in the last place: the new limbs and the
\* carry out at the top
RECURSIVE MulLimbs(_, _, _)
MulLimbs(limbs, k, c) ==
    IF limbs = <<>> THEN [limbs |-> <<>>, carry |-> c]
    ELSE LET rest == MulLimbs(Tail(limbs), k, c)
             v == k * Head(limbs) + rest.carry
         IN [limbs |-> <<v % LimbBase>> \o rest.limbs, carry |-> v \div LimbBase]

\* the number of zero bits of the fraction before its first one bit
LeadingZeros(limbs) ==
    IF \A j \in 1 .. 5 : limbs[j] = 0 THEN 80
    ELSE LET j == CHOOSE i \in 1 .. 5 : limbs[i] # 0 /\ \A h \in 1 .. i - 1 : limbs[h] = 0
         IN 16 * j - BitLen(limbs[j])

\* round to nearest, ties to even, at 53 significant bits
RoundToDouble(x) ==
    LET keep == IF x.int > 0 THEN 53 - BitLen(x.int) ELSE LeadingZeros(x.limbs) + 53
        q == keep \div 16
        t == keep % 16
    IN IF q >= 5 THEN x
       ELSE LET u == 2 ^ (16 - t)
                limb == x.limbs[q + 1]
                lo == limb % u
                guard == lo >= u \div 2
                sticky == \/ lo % (u \div 2) # 0
                          \/ \E j \in q + 2 .. 5 : x.limbs[j] # 0
                          \/ x.rest = 1
                odd == IF t > 0 THEN (limb \div u) % 2 = 1
                       ELSE IF q > 0 THEN x.limbs[q] % 2 = 1 ELSE x.int % 2 = 1
                v == (limb - lo) + (IF guard /\ (sticky \/ odd) THEN u ELSE 0)
                top == MulLimbs(SubSeq(x.limbs, 1, q), 1, v \div LimbBase)
            IN [int |-> x.int + top.carry,
                limbs |-> top.limbs \o <<v % LimbBase>> \o [j \in 1 .. 4 - q |-> 0],
                rest |-> 0]

\* what is left of r / 1000 below its first j limbs, times 1000
RECURSIVE Remainder(_, _)
Remainder(r, j) ==
    IF j = 0 THEN r ELSE (Remainder(r, j - 1) * LimbBase) % 1000

\* the double nearest to a / 1000: what JSON.parse and Number() make of the
\* decimal text of a fee
DoubleOfThousandths(a) ==
    RoundToDouble([int |-> a \div 1000,
                   limbs |-> [j \in 1 .. 5 |->
                                 (Remainder(a % 1000, j - 1) * LimbBase) \div 1000],
                   rest |-> IF Remainder(a % 1000, 5) = 0 THEN 0 ELSE 1])

\* x * 100, rounded to a double
Times100(x) ==
    LET m == MulLimbs(x.limbs, 100, 0)
    IN RoundToDouble([int |-> 100 * x.int + m.carry, limbs |-> m.limbs, rest |-> x.rest])

\* Math.round of x, or of -x: the nearest integer, a tie going to +Infinity
MathRound(x, negative) ==
    LET half == x.limbs[1] >= LimbBase \div 2
        above == \/ x.limbs[1] > LimbBase \div 2
                 \/ half /\ \E j \in 2 .. 5 : x.limbs[j] # 0
    IN IF negative THEN -(x.int + (IF above THEN 1 ELSE 0))
       ELSE x.int + (IF half THEN 1 ELSE 0)

\* Math.round(fee * 100), fee in thousandths
MathRoundTimes100(m) ==
    LET a == IF m < 0 THEN -m ELSE m
    IN MathRound(Times100(DoubleOfThousandths(a)), m < 0)

Digit(d) ==
    CASE d = 0 -> "0" [] d = 1 -> "1" [] d = 2 -> "2" [] d = 3 -> "3" [] d = 4 -> "4"
      [] d = 5 -> "5" [] d = 6 -> "6" [] d = 7 -> "7" [] d = 8 -> "8" [] d = 9 -> "9"

RECURSIVE Digits(_)
Digits(n) == IF n < 10 THEN Digit(n) ELSE Digits(n \div 10) \o Digit(n % 10)

\* String(n) for an integer n
StringOf(n) == IF n < 0 THEN "-" \o Digits(-n) ELSE Digits(n)

RateForFixedCurrency(fee, currency) ==
    [service_name |-> "GoGet Delivery", service_code |-> "GOGET_NOW",
     total_price |-> StringOf(MathRoundTimes100(fee)), currency |-> "MYR"]

\* the single rate of a successful answer
RateFor(fee, currency) ==
    [service_name |-> "GoGet Delivery", service_code |-> "GOGET_NOW",
     total_price |-> StringOf(MathRoundTimes100(fee)),
     currency |-> IF Truthy(currency) THEN currency ELSE "MYR"]

-----------------------------------------------------------------------------
(* The synchronous prologue of handler: access check and locals.            *)

Variants == {"goget", "part000", "part001"}

Secret == "s3cret"
Guess == "guess"
BodyEndpoint == "https://body.example/fee"
EnvEndpoint == "https://env.example/fee"
BodyAuthorization == "Bearer from-body"
BodyToken == "body-tok"
EnvToken == "env-tok"

TokenHeader(t) == "Token token=" \o t

\* req.headers["x-callback-token"] || (req.body && req.body.callback_token) || null
\* and (req.query && req.query.token) || null
ProvidedToken(v, r) ==
    IF v = "goget"
    THEN IF Truthy(r.headerToken) THEN r.headerToken
         ELSE IF Truthy(r.bodyToken) THEN r.bodyToken ELSE NullTok
    ELSE IF Truthy(r.queryToken) THEN r.queryToken ELSE NullTok

UnauthorizedIfSupplied(v, e, r) ==
    /\ Truthy(e.secret)
    /\ ProvidedToken(v, r) # NullTok
    /\ ProvidedToken(v, r) # e.secret

\* the condition of the 401 answer
Unauthorized(v, e, r) ==
    IF v = "part000" THEN r.queryToken # e.secret
    ELSE Truthy(e.secret) /\ ProvidedToken(v, r) # e.secret

GogetEndpointOf(v, e, r) ==
    IF v = "goget" THEN OrElse(r.gogetEndpoint, e.endpoint) ELSE e.endpoint

AuthorizationHeaderOf(v, e, r) ==
    CASE v = "goget" ->
            IF Truthy(r.gogetAuthorization) THEN r.gogetAuthorization
            ELSE IF Truthy(r.gogetToken) THEN TokenHeader(r.gogetToken)
            ELSE IF Truthy(e.token) THEN TokenHeader(e.token) ELSE NullTok
      [] v = "part001" -> IF Truthy(e.token) THEN TokenHeader(e.token) ELSE NullTok
      [] OTHER -> TokenHeader(e.token)

PickupAddressOf(v, e, r) ==
    CASE v = "goget" ->
            IF r.pickupLocation # <<>> THEN r.pickupLocation ELSE InlineJoin(r.origin)
      [] v = "part001" -> joinAddress(r.origin)
      [] OTHER -> IF e.pickupAddress # <<>> THEN e.pickupAddress ELSE InlineJoin(r.origin)

DropoffAddressOf(v, e, r) ==
    CASE v = "goget" ->
            IF r.dropoffLocation # <<>> THEN r.dropoffLocation ELSE InlineJoin(r.dest)
      [] v = "part001" -> joinAddress(r.dest)
      [] OTHER -> InlineJoin(r.dest)

\* the country handed to the geocoder, before toLowerCase
RawCountryOf(v, r) ==
    IF v = "part000"
    THEN IF FieldTruthy(r.dest.country) THEN r.dest.country ELSE ""
    ELSE CountryOf(r)

Locals(v, e, r) ==
    [endpoint |-> GogetEndpointOf(v, e, r),
     auth |-> AuthorizationHeaderOf(v, e, r),
     pickupAddress |-> PickupAddressOf(v, e, r),
     dropoffAddress |-> DropoffAddressOf(v, e, r),
     pickupLat |-> CASE v = "goget" -> numberOrNull(r.pickupLat)
                     [] v = "part001" -> toNum(e.pickupLat)
                     [] OTHER -> envNumber(e.pickupLat),
     pickupLng |-> CASE v = "goget" -> numberOrNull(r.pickupLng)
                     [] v = "part001" -> toNum(e.pickupLng)
                     [] OTHER -> envNumber(e.pickupLng),
     dropoffLat |-> IF v = "goget" THEN numberOrNull(r.dropoffLat) ELSE JNull,
     dropoffLng |-> IF v = "goget" THEN numberOrNull(r.dropoffLng) ELSE JNull,
     country |-> RawCountryOf(v, r)]

NoLocals ==
    [endpoint |-> Absent, auth |-> NullTok, pickupAddress |-> <<>>,
     dropoffAddress |-> <<>>, pickupLat |-> JNull, pickupLng |-> JNull,
     dropoffLat |-> JNull, dropoffLng |-> JNull, country |-> ""]

ConfigMissingEndpointOnly(v, e, r) ==
    v # "part000" /\ ~Truthy(GogetEndpointOf(v, e, r))

\* if (!gogetEndpoint || !authorizationHeader) / if (!gogetEndpoint || !gogetToken)
ConfigMissing(v, e, r) ==
    v # "part000" /\ (~Truthy(GogetEndpointOf(v, e, r))
                      \/ ~Truthy(AuthorizationHeaderOf(v, e, r)))

AddressMissingPickupOnly(v, e, r) ==
    IF v = "part000" THEN ~r.hasRate ELSE PickupAddressOf(v, e, r) = <<>>

\* if (!pickupAddress || !dropoffAddress); part_000 tests only `rate`
AddressMissing(v, e, r) ==
    IF v = "part000" THEN ~r.hasRate
    ELSE PickupAddressOf(v, e, r) = <<>> \/ DropoffAddressOf(v, e, r) = <<>>

\* (country).toLowerCase() of a value that is no string throws a TypeError
CountryThrows(v, r) == ~IsString(RawCountryOf(v, r))

-----------------------------------------------------------------------------
(* Inputs.  A field that cannot influence the run (the request is rejected, *)
(* or answered empty, before the field matters) is left at its default.     *)

EmptyAddr ==
    [address1 |-> "", address2 |-> "", city |-> "", province |-> "",
     zip |-> "", postal_code |-> "", country |-> ""]
AddrKL ==
    [address1 |-> "1 Jalan Ampang", address2 |-> "", city |-> "Kuala Lumpur",
     province |-> "", zip |-> "50450", postal_code |-> "", country |-> "MY"]
AddrPostalOnly == [EmptyAddr EXCEPT !.postal_code = "50450"]
AddrNumCountry == [EmptyAddr EXCEPT !.city = "Ipoh", !.country = NumCountry]

PickupOverrideText == <<"Lot 5 Warehouse">>
DropoffOverrideText == <<"Unit 9 Condo">>
EnvPickupText == <<"Default Store">>

PickupOverride == [lat |-> 315, lng |-> 10170]
DropoffOverride == [lat |-> 290, lng |-> 10155]

DefaultEnv ==
    [secret |-> Absent, endpoint |-> EnvEndpoint, token |-> EnvToken,
     pickupLat |-> Undef, pickupLng |-> Undef, pickupAddress |-> <<>>,
     debug |-> Absent]

DefaultReq ==
    [method |-> "POST", headerToken |-> Absent, bodyToken |-> Absent,
     queryToken |-> Absent, hasRate |-> TRUE, gogetEndpoint |-> Absent,
     gogetAuthorization |-> Absent, gogetToken |-> Absent,
     pickupLocation |-> <<>>, origin |-> AddrKL, pickupLat |-> Undef,
     pickupLng |-> Undef, dropoffLocation |-> <<>>, dest |-> AddrKL,
     dropoffLat |-> Undef, dropoffLng |-> Undef, currency |-> Absent]

\* stage 1: method, configured secret, supplied token
AccessInputs(v) ==
    { <<[DefaultEnv EXCEPT !.secret = s],
        [DefaultReq EXCEPT !.method = m, !.headerToken = t[1], !.bodyToken = t[2],
                           !.queryToken = t[3]]>> :
        s \in {Absent, Secret}, m \in {"POST", "GET"},
        t \in IF v = "goget"
              THEN {<<Absent, Absent, Absent>>, <<Secret, Absent, Absent>>,
                    <<Absent, Secret, Absent>>, <<Guess, Absent, Absent>>}
              ELSE {<<Absent, Absent, Absent>>, <<Absent, Absent, Secret>>,
                    <<Absent, Absent, Guess>>} }

\* stage 2: endpoint and credential, from the environment and from the body
ConfigInputs(v, er) ==
    { <<[er[1] EXCEPT !.endpoint = c[1], !.token = c[2], !.debug = d],
        [er[2] EXCEPT !.gogetEndpoint = c[3], !.gogetAuthorization = c[4],
                      !.gogetToken = c[5]]>> :
        d \in IF v = "part001" THEN {Absent, "1", "true"} ELSE {Absent},
        c \in {<<EnvEndpoint, EnvToken, Absent, Absent, Absent>>,
               <<Absent, EnvToken, Absent, Absent, Absent>>,
               <<EnvEndpoint, Absent, Absent, Absent, Absent>>,
               <<Absent, Absent, Absent, Absent, Absent>>}
              \cup (IF v = "goget"
                    THEN {<<EnvEndpoint, EnvToken, BodyEndpoint, Absent, Absent>>,
                          <<EnvEndpoint, EnvToken, Absent, Absent, BodyToken>>,
                          <<EnvEndpoint, Absent, Absent, BodyAuthorization, Absent>>,
                          <<Absent, Absent, BodyEndpoint, Absent, BodyToken>>,
                          <<Absent, Absent, BodyEndpoint, Absent, Absent>>}
                    ELSE {}) }

\* stage 3: the address texts
AddressInputs(v, er) ==
    { <<[er[1] EXCEPT !.pickupAddress = pa],
        [er[2] EXCEPT !.hasRate = a[1], !.pickupLocation = a[2], !.origin = a[3],
                      !.dropoffLocation = a[4], !.dest = a[5]]>> :
        pa \in IF v = "part000" THEN {<<>>, EnvPickupText} ELSE {<<>>},
        a \in {<<TRUE, <<>>, AddrKL, <<>>, AddrKL>>,
               <<TRUE, <<>>, EmptyAddr, <<>>, AddrKL>>,
               <<TRUE, <<>>, AddrKL, <<>>, EmptyAddr>>,
               <<TRUE, <<>>, AddrKL, <<>>, AddrPostalOnly>>,
               <<TRUE, <<>>, AddrKL, <<>>, AddrNumCountry>>}
              \cup (IF v = "goget"
                    THEN {<<TRUE, PickupOverrideText, AddrKL, <<>>, AddrKL>>,
                          <<TRUE, <<>>, AddrKL, DropoffOverrideText, EmptyAddr>>,
                          <<FALSE, PickupOverrideText, EmptyAddr,
                            DropoffOverrideText, EmptyAddr>>}
                    ELSE {})
              \cup (IF v = "part000"
                    THEN {<<FALSE, <<>>, EmptyAddr, <<>>, EmptyAddr>>} ELSE {}) }

\* stage 4: coordinate overrides and the currency
OverridePairs(o) == {<<Undef, Undef>>, <<Num(o.lat), Num(o.lng)>>, <<Num(o.lat), Undef>>}
EnvPairs(o) == {<<Undef, Undef>>, <<NumStr(o.lat), NumStr(o.lng)>>, <<NumStr(o.lat), Undef>>}

CoordinateInputs(v, er) ==
    { <<[er[1] EXCEPT !.pickupLat = ep[1], !.pickupLng = ep[2]],
        [er[2] EXCEPT !.pickupLat = rp[1], !.pickupLng = rp[2],
                      !.dropoffLat = rd[1], !.dropoffLng = rd[2],
                      !.currency = cur]>> :
        ep \in IF v = "goget" THEN {<<Undef, Undef>>} ELSE EnvPairs(PickupOverride),
        rp \in IF v = "goget" THEN OverridePairs(PickupOverride) ELSE {<<Undef, Undef>>},
        rd \in IF v = "goget" THEN OverridePairs(DropoffOverride) ELSE {<<Undef, Undef>>},
        cur \in {Absent, "SGD"} }

Rejected(v, er) == er[2].method # "POST" \/ Unauthorized(v, er[1], er[2])

\* The later stages are varied in full for these values of the earlier ones;
\* the other values of a stage are run with the later stages at their defaults.
MainAccess(v, er) ==
    \/ er[1].secret = Absent /\ ProvidedToken(v, er[2]) = NullTok
    \/ er[1].secret = Secret /\ Secret \in {er[2].headerToken, er[2].queryToken}

MainConfig(v, er) ==
    \/ er[1].endpoint = EnvEndpoint /\ er[1].token = EnvToken
       /\ er[2].gogetEndpoint = Absent /\ er[2].gogetToken = Absent
    \/ er[1].endpoint = Absent /\ er[2].gogetToken = BodyToken

MainAddress(v, er) ==
    /\ er[2].origin = er[2].dest
    /\ er[2].pickupLocation = <<>> <=> er[2].dropoffLocation = <<>>

Inputs(v) ==
    UNION { IF Rejected(v, a) THEN {a, <<a[1], [a[2] EXCEPT !.dest = EmptyAddr]>>}
            ELSE IF ~MainAccess(v, a) THEN {a}
            ELSE UNION { IF ConfigMissing(v, c[1], c[2]) \/ ~MainConfig(v, c) THEN {c}
                         ELSE UNION { IF \/ AddressMissing(v, d[1], d[2])
                                         \/ CountryThrows(v, d[2])
                                         \/ ~MainAddress(v, d)
                                      THEN {d}
                                      ELSE CoordinateInputs(v, d) :
                                      d \in AddressInputs(v, c) } :
                         c \in ConfigInputs(v, a) } :
            a \in AccessInputs(v) }

-----------------------------------------------------------------------------
(* The state machine.                                                       *)

NoResp == [sent |-> FALSE, status |-> 0, hasBody |-> FALSE, rates |-> <<>>, extras |-> {}]
NoGeocode == [side |-> "none", idx |-> 0]
NoQuoteResult == [status |-> "none", body |-> NoQuote, fee |-> JNull]
NoBody == [kind |-> "none", items |-> <<>>]
NoTry == [side |-> "none", idx |-> 0, answer |-> [kind |-> "none", body |-> NoBody],
          result |-> NoGeo]

Init ==
    /\ variant \in Variants
    /\ \E er \in Inputs(variant) : env = er[1] /\ req = er[2]
    /\ pc = "start"
    /\ loc = NoLocals
    /\ pickupGeo = NoGeo
    /\ dropoffGeo = NoGeo
    /\ geo = NoGeocode
    /\ timer = 0
    /\ geoLog = <<>>
    /\ quoteLog = <<>>
    /\ pauseLog = <<>>
    /\ quote = NoQuoteResult
    /\ failed = {}
    /\ resp = NoResp
    /\ thrown = FALSE
    /\ lastTry = NoTry

JsonBody(rates, extras) ==
    [sent |-> TRUE, status |-> 200, hasBody |-> TRUE, rates |-> rates, extras |-> extras]

maybeDebugWhenSet(e, obj) == IF Truthy(e.debug) THEN obj ELSE [obj EXCEPT !.extras = {}]

\* process.env.DEBUG === "1" ? obj : { rates: obj.rates || [] }
maybeDebug(e, obj) == IF e.debug = "1" THEN obj ELSE [obj EXCEPT !.extras = {}]

\* res.json({ rates: [] }), in part_001 through maybeDebug with its debug keys
EmptyAnswer(keys) ==
    IF variant = "part001" THEN maybeDebug(env, JsonBody(<<>>, keys))
    ELSE JsonBody(<<>>, {})

CatchResultRethrow == [resp |-> NoResp, thrown |-> TRUE]

\* the catch block around the body of handler
CatchResult == [resp |-> EmptyAnswer({"reason"}), thrown |-> FALSE]

inputs == <<variant, env, req>>

Finish(body, why) ==
    /\ pc' = "done"
    /\ resp' = body
    /\ failed' = failed \cup why
    /\ UNCHANGED thrown

Caught(why) ==
    /\ pc' = "done"
    /\ resp' = CatchResult.resp
    /\ thrown' = CatchResult.thrown
    /\ failed' = failed \cup why

\* handler up to its first await
Entry ==
    /\ pc = "start"
    /\ IF req.method # "POST"
       THEN /\ Finish([sent |-> TRUE, status |-> 405, hasBody |-> FALSE,
                       rates |-> <<>>, extras |-> {}], {})
            /\ UNCHANGED loc
       ELSE IF Unauthorized(variant, env, req)
       THEN /\ Finish([JsonBody(<<>>, {}) EXCEPT !.status = 401], {})
            /\ UNCHANGED loc
       ELSE IF variant = "part000"
       THEN IF ~req.hasRate
            THEN Finish(EmptyAnswer({}), {"addresses"}) /\ UNCHANGED loc
            ELSE /\ loc' = Locals(variant, env, req)
                 /\ pc' = "resolve_dropoff"
                 /\ UNCHANGED <<resp, failed, thrown>>
       ELSE /\ loc' = Locals(variant, env, req)
            /\ IF ConfigMissing(variant, env, req)
               THEN Finish(EmptyAnswer({"reason"}), {"config"})
               ELSE IF AddressMissing(variant, env, req)
               THEN Finish(EmptyAnswer({"reason"}), {"addresses"})
               ELSE IF CountryThrows(variant, req)
               THEN Caught({"throw"})
               ELSE /\ pc' = "resolve_pickup"
                    /\ UNCHANGED <<resp, failed, thrown>>
    /\ UNCHANGED <<inputs, lastTry, pickupGeo, dropoffGeo, geo, timer, geoLog, quoteLog,
                   pauseLog, quote>>

\* geocodeAddress returns `result` for `side`: the caller's next step
GeoReturn(side, result, also) ==
    LET why == also \cup (IF result.st = "null" THEN {"geocode_" \o side} ELSE {})
    IN IF side = "pickup"
       THEN /\ pickupGeo' = result
            /\ IF result.st = "null"
               THEN /\ dropoffGeo' = IF variant = "goget" THEN NullGeo ELSE dropoffGeo
                    /\ Finish(EmptyAnswer({"reason"}), why)
               ELSE /\ pc' = "resolve_dropoff"
                    /\ failed' = failed \cup why
                    /\ UNCHANGED <<dropoffGeo, resp, thrown>>
       ELSE /\ dropoffGeo' = result
            /\ UNCHANGED pickupGeo
            /\ IF result.st = "null"
               THEN Finish(EmptyAnswer({"reason"}), why)
               ELSE /\ pc' = "send_quote"
                    /\ failed' = failed \cup why
                    /\ UNCHANGED <<resp, thrown>>

\* geocodeAddress up to the fetch of its first attempt
StartGeocode(side, address, bias) ==
    IF address = <<>>
    THEN GeoReturn(side, NullGeo, {}) /\ UNCHANGED <<geo, timer, geoLog>>
    ELSE IF variant = "part000" /\ CountryThrows(variant, req)
    THEN Caught({"throw"}) /\ UNCHANGED <<pickupGeo, dropoffGeo, geo, timer, geoLog>>
    ELSE /\ geo' = [side |-> side, idx |-> 1]
         /\ timer' = Timeouts(variant)[1]
         /\ geoLog' = Append(geoLog, GeoParams(side, address, ToLower(loc.country),
                                               bias, Timeouts(variant)[1]))
         /\ pc' = "geo_fetch"
         /\ UNCHANGED <<pickupGeo, dropoffGeo, resp, failed, thrown>>

\* resolveCoordinates: the pickup point
ResolvePickup ==
    /\ pc = "resolve_pickup"
    /\ IF IsFinite(loc.pickupLat) /\ IsFinite(loc.pickupLng)
       THEN /\ pickupGeo' = Point(loc.pickupLat.n, loc.pickupLng.n)
            /\ pc' = "resolve_dropoff"
            /\ UNCHANGED <<dropoffGeo, geo, timer, geoLog, resp, failed, thrown>>
       ELSE StartGeocode("pickup", loc.pickupAddress, NoGeo)
    /\ UNCHANGED <<inputs, lastTry, loc, quoteLog, pauseLog, quote>>

\* resolveCoordinates: the dropoff point, biased by the pickup point
ResolveDropoff ==
    /\ pc = "resolve_dropoff"
    /\ IF variant = "goget" /\ IsFinite(loc.dropoffLat) /\ IsFinite(loc.dropoffLng)
       THEN /\ dropoffGeo' = Point(loc.dropoffLat.n, loc.dropoffLng.n)
            /\ pc' = "send_quote"
            /\ UNCHANGED <<pickupGeo, geo, timer, geoLog, resp, failed, thrown>>
       ELSE StartGeocode("dropoff", loc.dropoffAddress,
                         IF variant = "part000" THEN NoGeo ELSE pickupGeo)
    /\ UNCHANGED <<inputs, lastTry, loc, quoteLog, pauseLog, quote>>

\* tryOnce returned null
AttemptFailed(answer) ==
    /\ timer' = 0
    /\ lastTry' = [side |-> geo.side, idx |-> geo.idx, answer |-> answer,
                   result |-> NullGeo]
    /\ IF geo.idx >= Len(Timeouts(variant)) /\ variant = "part000"
       THEN /\ geo' = NoGeocode
            /\ GeoReturn(geo.side, NullGeo, {"geo_attempt"})
            /\ UNCHANGED pauseLog
       ELSE /\ pc' = "geo_pause"
            /\ pauseLog' = Append(pauseLog, [side |-> geo.side, after |-> geo.idx, ms |-> PauseMs])
            /\ failed' = failed \cup {"geo_attempt"}
            /\ UNCHANGED <<geo, pickupGeo, dropoffGeo, resp, thrown>>

\* tryOnce returned a point
AttemptSucceeded(result, answer) ==
    /\ timer' = 0
    /\ lastTry' = [side |-> geo.side, idx |-> geo.idx, answer |-> answer,
                   result |-> result]
    /\ geo' = NoGeocode
    /\ GeoReturn(geo.side, result, {})
    /\ UNCHANGED pauseLog

\* the geocoder answers the fetch: a network error, a status, then r.ok
GeoFetchReply ==
    /\ pc = "geo_fetch"
    /\ \E o \in {"error", "bad_status", "ok"} :
         IF o = "ok"
         THEN /\ pc' = "geo_body"
              /\ UNCHANGED <<pickupGeo, dropoffGeo, geo, timer, pauseLog, resp,
                             failed, thrown, lastTry>>
         ELSE AttemptFailed([kind |-> o, body |-> NoBody])
    /\ UNCHANGED <<inputs, loc, geoLog, quoteLog, quote>>

\* the body of the geocoder's answer arrives: r.json() and the checks on it
GeoBodyReply ==
    /\ pc = "geo_body"
    /\ \E b \in GeoBodies :
         LET result == ParseGeoBody(b)
             answer == [kind |-> "body", body |-> b]
         IN IF result.st = "null" THEN AttemptFailed(answer)
            ELSE AttemptSucceeded(result, answer)
    /\ UNCHANGED <<inputs, loc, geoLog, quoteLog, quote>>

\* the attempt's timer fires: controller.abort() rejects the pending await
GeoAbort ==
    /\ pc \in {"geo_fetch", "geo_body"}
    /\ timer > 0
    /\ AttemptFailed([kind |-> "abort", body |-> NoBody])
    /\ UNCHANGED <<inputs, loc, geoLog, quoteLog, quote>>

\* the pause is over: the next attempt, or null after the last
GeoPauseDone ==
    /\ pc = "geo_pause"
    /\ IF geo.idx < Len(Timeouts(variant))
       THEN /\ geo' = [geo EXCEPT !.idx = geo.idx + 1]
            /\ timer' = Timeouts(variant)[geo.idx + 1]
            /\ geoLog' = Append(geoLog, [geoLog[Len(geoLog)] EXCEPT
                                           !.timeoutMs = Timeouts(variant)[geo.idx + 1]])
            /\ pc' = "geo_fetch"
            /\ UNCHANGED <<pickupGeo, dropoffGeo, resp, failed, thrown>>
       ELSE /\ geo' = NoGeocode
            /\ GeoReturn(geo.side, NullGeo, {})
            /\ UNCHANGED <<timer, geoLog>>
    /\ UNCHANGED <<inputs, lastTry, loc, quoteLog, pauseLog, quote>>

\* the payload of the quote request and the request itself
QuoteRequest ==
    [url |-> loc.endpoint, authorization |-> loc.auth,
     pickupLocation |-> loc.pickupAddress,
     pickupLat |-> IF variant = "part000" THEN loc.pickupLat ELSE Num(pickupGeo.lat),
     pickupLng |-> IF variant = "part000" THEN loc.pickupLng ELSE Num(pickupGeo.lng),
     dropoffLocation |-> loc.dropoffAddress,
     dropoffLat |-> Num(dropoffGeo.lat), dropoffLng |-> Num(dropoffGeo.lng)]

\* build the payload and fetch the quote
SendQuote ==
    /\ pc = "send_quote"
    /\ IF ~Truthy(loc.endpoint)
       THEN /\ quote' = [quote EXCEPT !.status = "neterr"]
            /\ Finish(EmptyAnswer({}), {"quote_fetch"})
            /\ UNCHANGED <<timer, quoteLog>>
       ELSE /\ quoteLog' = Append(quoteLog, QuoteRequest)
            /\ timer' = QuoteTimeoutMs
            /\ pc' = "quote_fetch"
            /\ UNCHANGED <<quote, resp, failed, thrown>>
    /\ UNCHANGED <<inputs, lastTry, loc, pickupGeo, dropoffGeo, geo, geoLog, pauseLog>>

QuoteFailedRetry(status, why) ==
    /\ quote' = [quote EXCEPT !.status = status]
    /\ pc' = "send_quote"
    /\ failed' = failed \cup why
    /\ UNCHANGED <<resp, thrown>>

\* fetch rejected (.catch(() => null)), or answered with a status that is not ok
QuoteFailed(status, why) ==
    /\ quote' = [quote EXCEPT !.status = status]
    /\ IF variant = "part001" /\ status = "notok"
       THEN /\ pc' = "quote_text"
            /\ failed' = failed \cup why
            /\ UNCHANGED <<resp, thrown>>
       ELSE Finish(EmptyAnswer({"reason", "status", "body"}), why)

\* the quote API answers the fetch; clearTimeout(timeout) follows the await
QuoteFetchReply ==
    /\ pc = "quote_fetch"
    /\ timer' = 0
    /\ \E o \in {"error", "bad_status", "ok"} :
         CASE o = "error" -> QuoteFailed("neterr", {"quote_fetch"})
           [] o = "bad_status" -> QuoteFailed("notok", {"quote_status"})
           [] OTHER -> /\ quote' = [quote EXCEPT !.status = "ok"]
                       /\ pc' = "quote_body"
                       /\ UNCHANGED <<resp, failed, thrown>>
    /\ UNCHANGED <<inputs, lastTry, loc, pickupGeo, dropoffGeo, geo, geoLog, quoteLog, pauseLog>>

\* the 4000 ms timer fires while the fetch is pending
QuoteAbort ==
    /\ pc = "quote_fetch"
    /\ timer > 0
    /\ timer' = 0
    /\ QuoteFailed("aborted", {"quote_fetch"})
    /\ UNCHANGED <<inputs, lastTry, loc, pickupGeo, dropoffGeo, geo, geoLog, quoteLog, pauseLog>>

\* part_001: safeText(ggResp) returns the text, or "" when reading it throws
QuoteTextReply ==
    /\ pc = "quote_text"
    /\ Finish(EmptyAnswer({"reason", "status", "body"}), {})
    /\ UNCHANGED <<inputs, lastTry, loc, pickupGeo, dropoffGeo, geo, timer, geoLog, quoteLog,
                   pauseLog, quote>>

\* the body of the quote arrives: ggResp.json(), the fee, the response
QuoteBodyReply ==
    /\ pc = "quote_body"
    /\ \E b \in QuoteBodies :
         IF b.kind = "badjson"
         THEN /\ quote' = [quote EXCEPT !.body = b]
              /\ Caught({"quote_json"})
         ELSE LET fee == ExtractFee(variant, b)
              IN /\ quote' = [quote EXCEPT !.body = b, !.fee = fee]
                 /\ IF ~IsFinite(fee)
                    THEN Finish(EmptyAnswer({"reason", "quote"}), {"no_fee"})
                    ELSE Finish(IF variant = "part001"
                                THEN maybeDebug(env, JsonBody(<<RateFor(fee.n, req.currency)>>,
                                                              {"gogetFee", "payloadSent"}))
                                ELSE JsonBody(<<RateFor(fee.n, req.currency)>>, {}), {})
    /\ UNCHANGED <<inputs, lastTry, loc, pickupGeo, dropoffGeo, geo, timer, geoLog, quoteLog,
                   pauseLog>>

Next ==
    \/ Entry
    \/ ResolvePickup
    \/ ResolveDropoff
    \/ GeoFetchReply
    \/ GeoBodyReply
    \/ GeoAbort
    \/ GeoPauseDone
    \/ SendQuote
    \/ QuoteFetchReply
    \/ QuoteAbort
    \/ QuoteTextReply
    \/ QuoteBodyReply

Spec == Init /\ [][Next]_vars

-----------------------------------------------------------------------------
(* Vocabulary of the properties.                                            *)

Done == pc = "done"
IsPost == req.method = "POST"
PassedAccess == IsPost /\ ~Unauthorized(variant, env, req)

GeoRequests(side) == {i \in 1 .. Len(geoLog) : geoLog[i].side = side}
NoNetworkCall == geoLog = <<>> /\ quoteLog = <<>>
EmptyRatesSent == resp.sent /\ resp.hasBody /\ resp.rates = <<>>

\* the steps whose failure ends the pipeline: everything but a single geocoder
\* attempt, which is retried
FinalFailures == failed \ {"geo_attempt"}

-----------------------------------------------------------------------------
(* C1 as stated: for a POST request that passed the access check, once any  *)
(* step has failed or thrown -- a single geocoder attempt included -- the   *)
(* handler ends with an empty rates list and no exception leaves it.        *)
C1_AnyFailureEmptiesRates ==
    (Done /\ PassedAccess /\ failed # {}) => (EmptyRatesSent /\ ~thrown)

(* C1, amended: for a POST request that passed the access check, no         *)
(* exception ever leaves handler, it ends with a response sent, and once a  *)
(* step has failed for good or thrown (configuration, addresses, building   *)
(* the country bias, all attempts of a geocoding, the quote fetch or its    *)
(* status, parsing the quote body, the fee) the rates list sent is empty.   *)
C1_FinalFailureEmptiesRates ==
    PassedAccess =>
        /\ ~thrown
        /\ Done => resp.sent
        /\ (Done /\ FinalFailures # {}) => EmptyRatesSent

C1_Witness ==
    Done /\ PassedAccess /\ "quote_json" \in failed /\ EmptyRatesSent /\ ~thrown

-----------------------------------------------------------------------------
(* C2: the handler is never left hanging on the network: in every state     *)
(* before the response, a step that does not wait for an answer of the      *)
(* network is enabled -- the handler's own next step, the end of a pause,   *)
(* or the abort timer of the pending call.                                  *)
OwnStep ==
    \/ Entry
    \/ ResolvePickup
    \/ ResolveDropoff
    \/ GeoAbort
    \/ GeoPauseDone
    \/ SendQuote
    \/ QuoteAbort

C2_NeverLeftHanging == ~Done => ENABLED OwnStep

-----------------------------------------------------------------------------
-----------------------------------------------------------------------------
(* C4: when the quote API answers with a success status and a body          *)
(* {data:{fee: f}}, f a non-negative number of whole hundredths, the        *)
(* response is a rates list of exactly one element with service_code        *)
(* "GOGET_NOW", total_price the decimal string of f x 100 ("850" for 8.5,   *)
(* "1300" for 13) and the request's currency, "MYR" when the request gives  *)
(* none.                                                                    *)
WholeHundredths(v) == v.t = "number" /\ v.n >= 0 /\ v.n % 10 = 0

C4_SuccessfulQuoteYieldsRate ==
    (Done /\ quote.status = "ok" /\ quote.body.kind = "json"
          /\ WholeHundredths(quote.body.dataFee)) =>
        /\ Len(resp.rates) = 1
        /\ resp.rates[1].service_code = "GOGET_NOW"
        /\ resp.rates[1].total_price = StringOf(quote.body.dataFee.n \div 10)
        /\ resp.rates[1].currency =
              (IF req.currency = Absent THEN "MYR" ELSE req.currency)

C4_Witness ==
    /\ Done /\ variant = "goget"
    /\ Len(geoLog) >= 2
    /\ quote.body.dataFee = Num(8500)
    /\ req.currency = Absent
    /\ Len(resp.rates) = 1
    /\ resp.rates[1].total_price = "850"
    /\ resp.rates[1].currency = "MYR"

-----------------------------------------------------------------------------
(* C5 as stated: with a secret configured and the supplied token absent or  *)
(* different, the handler ends with status 401 and an empty rates list and  *)
(* issues no geocoder and no quote request -- whatever the request method.  *)
TokenMismatch == Truthy(env.secret) /\ ProvidedToken(variant, req) # env.secret

C5_MismatchAlwaysUnauthorized ==
    TokenMismatch => (NoNetworkCall /\ (Done => (resp.status = 401 /\ EmptyRatesSent)))

(* C5, amended: for a POST request, with a secret configured and the        *)
(* supplied token absent or different, the handler ends with status 401 and *)
(* an empty rates list; no geocoder and no quote request is ever issued     *)
(* (a request of another method is answered 405, without a body).           *)
C5_PostMismatchUnauthorized ==
    TokenMismatch =>
        /\ NoNetworkCall
        /\ (Done /\ IsPost) => (resp.status = 401 /\ EmptyRatesSent)
        /\ (Done /\ ~IsPost) => (resp.status = 405 /\ ~resp.hasBody)

C5_Witness ==
    /\ Done /\ IsPost /\ env.secret = Secret
    /\ ProvidedToken(variant, req) = Guess
    /\ resp.status = 401 /\ EmptyRatesSent

-----------------------------------------------------------------------------
(* C6: when no shared secret is configured, no POST request is answered     *)
(* with the unauthorized status, whatever token the caller supplies.        *)
C6_NoSecretNeverUnauthorized ==
    (env.secret = Absent /\ IsPost /\ Done) => resp.status # 401

-----------------------------------------------------------------------------
(* C7 as stated: when every destination address field is empty and no       *)
(* dropoff address override is given, the handler answers with an empty     *)
(* rates list and attempts no network call -- whatever the request method.  *)
DestinationEmpty == req.dest = EmptyAddr /\ req.dropoffLocation = <<>>

C7_EmptyDestinationEmptyRates ==
    DestinationEmpty => (NoNetworkCall /\ (Done => EmptyRatesSent))

(* C7, amended: for a POST request whose destination address fields are all *)
(* empty and that gives no dropoff address override, the handler answers    *)
(* with an empty rates list, and no geocoder request (pickup or dropoff)    *)
(* and no quote request is ever issued; for a request of another method no  *)
(* network call is attempted either, and the answer is 405 without a body.  *)
C7_PostEmptyDestinationEmptyRates ==
    DestinationEmpty =>
        /\ NoNetworkCall
        /\ (Done /\ IsPost) => EmptyRatesSent
        /\ (Done /\ ~IsPost) => (resp.status = 405 /\ ~resp.hasBody)

C7_Witness ==
    /\ Done /\ PassedAccess /\ DestinationEmpty
    /\ PickupAddressOf(variant, env, req) # <<>>
    /\ ~ConfigMissing(variant, env, req)
    /\ variant = "goget"
    /\ EmptyRatesSent /\ resp.status = 200 /\ NoNetworkCall

-----------------------------------------------------------------------------
(* C8: geocodeAddress makes at most three attempts per address, stops at    *)
(* the first that succeeds, and yields null only after three failed         *)
(* attempts: a geocoder that fails twice is asked a third time.             *)
GeocodingFailed(side) == ("geocode_" \o side) \in failed

AddressOfSide(side) ==
    IF side = "pickup" THEN loc.pickupAddress ELSE loc.dropoffAddress

C8_ThreeAttemptsBeforeNull ==
    \A side \in {"pickup", "dropoff"} :
        /\ Cardinality(GeoRequests(side)) <= 3
        /\ (GeocodingFailed(side) /\ AddressOfSide(side) # <<>>) =>
              Cardinality(GeoRequests(side)) = 3

-----------------------------------------------------------------------------
(* C9 as stated: for a coordinate override with finite latitude and         *)
(* longitude, once the coordinates are resolved the point of that endpoint  *)
(* is exactly the override, and no geocoder request is issued for it.       *)
PickupOverridden ==
    IF variant = "goget" THEN req.pickupLat.t = "number" /\ req.pickupLng.t = "number"
    ELSE variant = "part001" /\ env.pickupLat.t = "numstr" /\ env.pickupLng.t = "numstr"

DropoffOverridden ==
    variant = "goget" /\ req.dropoffLat.t = "number" /\ req.dropoffLng.t = "number"

PickupOverridePoint ==
    IF variant = "goget" THEN [st |-> "point", lat |-> req.pickupLat.n, lng |-> req.pickupLng.n]
    ELSE [st |-> "point", lat |-> env.pickupLat.n, lng |-> env.pickupLng.n]

DropoffOverridePoint ==
    [st |-> "point", lat |-> req.dropoffLat.n, lng |-> req.dropoffLng.n]

C9_OverrideIsThePoint ==
    /\ PickupOverridden =>
          /\ GeoRequests("pickup") = {}
          /\ pickupGeo.st # "pending" => pickupGeo = PickupOverridePoint
    /\ DropoffOverridden =>
          /\ GeoRequests("dropoff") = {}
          /\ dropoffGeo.st # "pending" => dropoffGeo = DropoffOverridePoint

(* C9, amended: no geocoder request is issued for an endpoint whose         *)
(* coordinate override is finite, and whenever that endpoint is resolved    *)
(* its point is exactly the override; the dropoff endpoint is resolved only *)
(* after the pickup point has been: when the pickup geocoding fails,        *)
(* resolveCoordinates returns no dropoff point, override or not.            *)
C9_OverrideIsThePointWhenResolved ==
    /\ PickupOverridden =>
          /\ GeoRequests("pickup") = {}
          /\ pickupGeo.st # "pending" => pickupGeo = PickupOverridePoint
    /\ DropoffOverridden =>
          /\ GeoRequests("dropoff") = {}
          /\ (dropoffGeo.st # "pending" /\ pickupGeo.st = "point") =>
                dropoffGeo = DropoffOverridePoint
          /\ (dropoffGeo.st # "pending" /\ pickupGeo.st # "point") =>
                (dropoffGeo = NullGeo /\ pickupGeo = NullGeo)

C9_Witness ==
    /\ PickupOverridden /\ DropoffOverridden
    /\ Len(quoteLog) = 1 /\ geoLog = <<>>
    /\ quoteLog[1].pickupLat = req.pickupLat
    /\ quoteLog[1].dropoffLng = req.dropoffLng

-----------------------------------------------------------------------------
(* C10: in goget.js and part_001, every geocoder request for the dropoff    *)
(* is issued after the pickup point is resolved and after every pickup      *)
(* request, and carries a bounding box centred on the resolved pickup       *)
(* point; when the pickup resolution fails there is no dropoff request, no  *)
(* quote request, and the response is an empty rates list.                  *)
CentredOn(box, p) ==
    /\ Len(box) = 4
    /\ box[1] < box[3] /\ box[4] < box[2]
    /\ box[1] + box[3] = 2 * p.lng
    /\ box[2] + box[4] = 2 * p.lat

-----------------------------------------------------------------------------
(* C11: in every delivery-quote request that is issued, the pickup latitude *)
(* and longitude and the dropoff latitude and longitude of the payload are  *)
(* all finite numbers.                                                      *)
C11_QuotePayloadIsFinite ==
    \A i \in 1 .. Len(quoteLog) :
        /\ IsFinite(quoteLog[i].pickupLat) /\ IsFinite(quoteLog[i].pickupLng)
        /\ IsFinite(quoteLog[i].dropoffLat) /\ IsFinite(quoteLog[i].dropoffLng)

-----------------------------------------------------------------------------
(* C12: the delivery-quote API is called at most once per invocation; once  *)
(* the call has failed -- fetch rejected, aborted by its deadline, or       *)
(* answered with a status that is no success -- no further quote request    *)
(* follows and the response is an empty rates list.                         *)
QuoteCallFailed == quote.status \in {"neterr", "aborted", "notok"}

C12_QuoteAtMostOnce ==
    /\ Len(quoteLog) <= 1
    /\ QuoteCallFailed =>
          /\ pc \in {"quote_text", "done"}
          /\ Done => EmptyRatesSent

C12_Witness ==
    Done /\ Len(quoteLog) = 1 /\ quote.status = "aborted" /\ EmptyRatesSent

-----------------------------------------------------------------------------
(* C13: the fee is the value of the first of the shapes data.fee,           *)
(* total_fee, fee that yields a finite number; a shape that is absent, null *)
(* or no finite number is skipped in favour of the next one; when no shape  *)
(* yields a finite number the response is an empty rates list.              *)
YieldsNumber(v) == v.t \in {"number", "numstr"}

FirstFiniteShape(b) ==
    IF YieldsNumber(b.dataFee) THEN Num(b.dataFee.n)
    ELSE IF YieldsNumber(b.totalFee) THEN Num(b.totalFee.n)
    ELSE IF YieldsNumber(b.fee) THEN Num(b.fee.n) ELSE JNull

C13_FirstFiniteShapeWins ==
    (Done /\ quote.status = "ok" /\ quote.body.kind = "json") =>
        LET f == FirstFiniteShape(quote.body)
        IN IF IsFinite(f)
           THEN /\ quote.fee = f
                /\ Len(resp.rates) = 1
                /\ resp.rates[1].total_price = StringOf(MathRoundTimes100(f.n))
           ELSE EmptyRatesSent

-----------------------------------------------------------------------------
(* C14: a quote whose extracted fee is negative never produces a rate: the  *)
(* response is an empty rates list, so that no total_price sent is the      *)
(* rendering of a negative amount.                                          *)
NegativeFeeExtracted == IsFinite(quote.fee) /\ quote.fee.n < 0

C14_NegativeFeeFailsClosed ==
    (Done /\ NegativeFeeExtracted) => EmptyRatesSent

-----------------------------------------------------------------------------
(* C15: total_price is the decimal string of the fee in minor units, the    *)
(* fee times 100 rounded half up: "1300" for 13.00, "1301" for 13.005, and  *)
(* likewise for every non-negative fee that lies on a half (1.005 gives     *)
(* "101").                                                                  *)
RoundHalfUpTimes100(m) == (m + 5) \div 10

C15_RoundHalfUp ==
    (Done /\ Len(resp.rates) = 1 /\ IsFinite(quote.fee) /\ quote.fee.n >= 0) =>
        resp.rates[1].total_price = StringOf(RoundHalfUpTimes100(quote.fee.n))

-----------------------------------------------------------------------------
(* C16: unless the debug flag is set to enabled (DEBUG is "1"), the body of *)
(* every response to a POST request holds the rates list and nothing else:  *)
(* no failure reason, no downstream status or body, no raw quote, no        *)
(* extracted fee, no request payload.                                       *)
DebugEnabled == env.debug = "1"

C16_ExtrasOnlyInDebug ==
    (IsPost /\ resp.sent /\ ~DebugEnabled) => (resp.hasBody /\ resp.extras = {})

C16_Witness ==
    /\ Done /\ variant = "part001" /\ env.debug = "true"
    /\ "quote_status" \in failed
    /\ EmptyRatesSent /\ resp.extras = {}

-----------------------------------------------------------------------------
(* C18: in goget.js and part_001, a geocoder attempt fails exactly when the  *)
(* request errors or is aborted by its deadline, the status is no success,  *)
(* the body is not a non-empty array, or the latitude or longitude of the   *)
(* first candidate is not a finite number; a failed attempt is followed by  *)
(* the pause and the next attempt; any other attempt succeeds with the      *)
(* coordinates of the first candidate, which is then the point              *)
(* geocodeAddress returns.                                                  *)
IsCoordinate(v) == v.t \in {"number", "numstr"}

FirstCandidateUsable(b) ==
    /\ b.kind = "array"
    /\ Len(b.items) >= 1
    /\ IsCoordinate(b.items[1].lat)
    /\ IsCoordinate(b.items[1].lon)

AttemptMustFail(a) ==
    a.kind \in {"error", "abort", "bad_status"} \/ ~FirstCandidateUsable(a.body)

PointOfSide(side) == IF side = "pickup" THEN pickupGeo ELSE dropoffGeo

C18_AttemptFailsExactlyWhen ==
    (variant \in {"goget", "part001"} /\ lastTry.side # "none") =>
        /\ IF AttemptMustFail(lastTry.answer)
           THEN lastTry.result = NullGeo
           ELSE lastTry.result = [st |-> "point",
                                  lat |-> lastTry.answer.body.items[1].lat.n,
                                  lng |-> lastTry.answer.body.items[1].lon.n]
        /\ (lastTry.result = NullGeo /\ geo.side = lastTry.side) =>
              \/ pc = "geo_pause" /\ geo.idx = lastTry.idx
              \/ pc \in {"geo_fetch", "geo_body"} /\ geo.idx = lastTry.idx + 1
        /\ lastTry.result.st = "point" => PointOfSide(lastTry.side) = lastTry.result

-----------------------------------------------------------------------------
(* C19: the attempts of one geocodeAddress call use the deadlines 2500 ms,  *)
(* 3500 ms, 4500 ms in that order, and a pause of 200 ms is taken only      *)
(* between a failed attempt and the attempt that follows it: none after the *)
(* third failed attempt, none after a successful attempt.                   *)
PositionInSide(i) ==
    Cardinality({j \in 1 .. i : geoLog[j].side = geoLog[i].side})

C19_DeadlinesAndPauses ==
    variant \in {"goget", "part001"} =>
        /\ \A i \in 1 .. Len(geoLog) :
              /\ PositionInSide(i) <= 3
              /\ geoLog[i].timeoutMs = <<2500, 3500, 4500>>[PositionInSide(i)]
        /\ \A i \in 1 .. Len(pauseLog) :
              /\ pauseLog[i].ms = 200
              /\ pauseLog[i].after \in {1, 2}
        /\ (pc = "geo_pause") => lastTry.result = NullGeo

-----------------------------------------------------------------------------
(* C20: the credential of the process configuration (GOGET_API_TOKEN) is    *)
(* sent only to the endpoint of the process configuration                   *)
(* (GOGET_API_ENDPOINT): no quote request carries it in its Authorization   *)
(* header while its URL is an endpoint supplied in the request body.        *)
C20_EnvCredentialOnlyToEnvEndpoint ==
    \A i \in 1 .. Len(quoteLog) :
        (Truthy(env.token) /\ quoteLog[i].authorization = TokenHeader(env.token)) =>
            quoteLog[i].url = env.endpoint

=============================================================================
